---------------------------- MODULE Spec2Model ----------------------------
(***************************************************************************)
(* Inventory consolidation: the Streamlit script src/main.py and its       *)
(* earlier variant src/consolidation app/consolidation_webapp/main.py.     *)
(* One execution of the script is a run: load, normalise, validate,        *)
(* whitelist filter, brand / store filters, aggregation, outer merge,      *)
(* greedy allocation (warehouses first, then low-selling retail stores)    *)
(* and enrichment of the emitted movements.  Streamlit re-executes the     *)
(* whole script on a rerun with the same uploaded files and widget states. *)
(*                                                                         *)
(* Text is modelled as a sequence of one-character strings so that strip,  *)
(* upper, lower, substring search and the lexicographic order pandas sorts *)
(* by are computed, not assumed.                                           *)
(***************************************************************************)
EXTENDS Naturals, Integers, Sequences, FiniteSets, TLC

(***************************************************************************)
(* Text                                                                    *)
(***************************************************************************)
Digits == <<"0", "1", "2", "3", "4", "5", "6", "7", "8", "9">>

Uppers == <<"A", "B", "C", "D", "E", "F", "G", "H", "I", "J", "K", "L", "M",
            "N", "O", "P", "Q", "R", "S", "T", "U", "V", "W", "X", "Y", "Z">>

Lowers == <<"a", "b", "c", "d", "e", "f", "g", "h", "i", "j", "k", "l", "m",
            "n", "o", "p", "q", "r", "s", "t", "u", "v", "w", "x", "y", "z">>

\* the characters in code-point order: space, digits, upper case, lower case
Alphabet == <<" ">> \o Digits \o Uppers \o Lowers

Range(f) == {f[k] : k \in DOMAIN f}

\* code-point rank of a character
Ord == [c \in Range(Alphabet) |-> CHOOSE k \in 1..Len(Alphabet) : Alphabet[k] = c]

UpperChar(c) ==
    IF \E k \in 1..Len(Lowers) : Lowers[k] = c
    THEN Uppers[CHOOSE k \in 1..Len(Lowers) : Lowers[k] = c]
    ELSE c

LowerChar(c) ==
    IF \E k \in 1..Len(Uppers) : Uppers[k] = c
    THEN Lowers[CHOOSE k \in 1..Len(Uppers) : Uppers[k] = c]
    ELSE c

\* str.upper()
str_upper(s) == [k \in 1..Len(s) |-> UpperChar(s[k])]

\* str.lower()
str_lower(s) == [k \in 1..Len(s) |-> LowerChar(s[k])]

\* str.strip(): leading and trailing white space removed
str_strip(s) ==
    LET inked == {k \in 1..Len(s) : s[k] # " "}
    IN  IF inked = {} THEN <<>>
        ELSE SubSeq(s, CHOOSE k \in inked : \A j \in inked : k <= j,
                       CHOOSE k \in inked : \A j \in inked : k >= j)

\* sub in s
str_contains(s, sub) ==
    \E k \in 0..(Len(s) - Len(sub)) : SubSeq(s, k + 1, k + Len(sub)) = sub

\* s < t in the order Python compares strings by (code points, then length)
str_less(s, t) ==
    \E k \in 1..(Len(t)) :
        /\ \A j \in 1..(k - 1) : j <= Len(s) /\ s[j] = t[j]
        /\ \/ k > Len(s)
           \/ k <= Len(s) /\ Ord[s[k]] < Ord[t[k]]

\* a missing cell (pandas NaN); it is no text
NaN == <<"NaN">>

\* astype(str): a missing cell becomes the text 'nan'
astype_str(v) == IF v = NaN THEN <<"n", "a", "n">> ELSE v

\* .astype(str).str.strip().str.upper() as applied to names and product codes
Normalize(v) == str_upper(str_strip(astype_str(v)))

(***************************************************************************)
(* Program constants                                                       *)
(***************************************************************************)
Scripts == {"main", "webapp"}

SalesRequired == <<"StoreName", "ProductCode", "ProductName", "Quantity">>

SohRequired == <<"StoreName", "ProductCode", "ProductName", "ActualStock">>

FormatRequired == <<"Part No">>

store_brands == << <<"B", "o", "s", "e">>,
                   <<"I", "m", "a", "g", "i", "n", "e">>,
                   <<"I", "c", "a", "r", "e">> >>

WarehouseWord == <<"w", "a", "r", "e", "h", "o", "u", "s", "e">>

AppleWord == <<"a", "p", "p", "l", "e">>

NanWord == <<"n", "a", "n">>

\* 'warehouse' in store.lower()
IsWarehouse(store) == str_contains(str_lower(store), WarehouseWord)

(***************************************************************************)
(* The uploaded files the runs are explored over                           *)
(***************************************************************************)
\* total units of stock, and of sales, over the stores of a generated file
MaxTotalStock == 3

MaxTotalSales == 5

\* the totals of the smaller files of the termination runs
MaxLiveStock == 2

MaxLiveSales == 4

BoseA == <<"B", "o", "s", "e", " ", "A">>

BoseWh == <<"B", "o", "s", "e", " ", "W", "a", "r", "e", "H", "o", "u", "s", "e">>

IcareB == <<"I", "c", "a", "r", "e", " ", "B">>

ImagineC == <<"I", "m", "a", "g", "i", "n", "e", " ", "C">>

StoreNames == <<BoseA, BoseWh, IcareB, ImagineC>>

P1 == <<"P", "1">>

P1raw == <<"p", "1", " ">>

P2 == <<"P", "2">>

Amp == <<"A", "m", "p">>

AmpRaw == <<" ", "a", "m", "p">>

ApplePod == <<"A", "p", "p", "l", "e", " ", "P">>

BrandX == <<"X">>

BrandY == <<"Y">>

RECURSIVE SumTo(_, _)
SumTo(q, n) == IF n = 0 THEN 0 ELSE q[n] + SumTo(q, n - 1)

\* the quantity vectors over the stores with at most total units in all
QtyVectors(total) ==
    {q \in [1..Len(StoreNames) -> 0..total] : SumTo(q, Len(StoreNames)) <= total}

SalesRow(store, code, name, qty, brand) ==
    [StoreName |-> store, ProductCode |-> code, ProductName |-> name,
     Quantity |-> qty, BrandName |-> brand]

SohRow(store, code, name, qty, brand) ==
    [StoreName |-> store, ProductCode |-> code, ProductName |-> name,
     ActualStock |-> qty, Brand |-> brand]

AllSalesColumns == {"StoreName", "ProductCode", "ProductName", "Quantity", "BrandName"}

AllSohColumns == {"StoreName", "ProductCode", "ProductName", "ActualStock", "Brand"}

\* one sales row per store, in store order
SalesFileOf(q) ==
    [columns |-> AllSalesColumns,
     rows |-> [k \in 1..Len(StoreNames) |->
                  SalesRow(StoreNames[k], P1, Amp, q[k], BrandX)]]

\* one stock row per store, in reverse store order
SohFileOf(q) ==
    [columns |-> AllSohColumns,
     rows |-> [k \in 1..Len(StoreNames) |->
                  LET s == Len(StoreNames) + 1 - k
                  IN  SohRow(StoreNames[s], P1, Amp, q[s], BrandX)]]

FormatFileOf(parts) == [columns |-> {"Part No"}, rows |-> parts]

\* small files with raw product codes, duplicate keys, one-sided keys and brands
SalesRowsB1 == << SalesRow(BoseA, P1, Amp, 2, BrandX),
                  SalesRow(IcareB, P2, ApplePod, 1, BrandY) >>

SalesRowsB2 == << SalesRow(IcareB, P1raw, AmpRaw, 1, BrandX),
                  SalesRow(BoseA, P1, Amp, 1, NaN),
                  SalesRow(BoseA, P1, Amp, 1, BrandX),
                  SalesRow(BoseWh, P2, ApplePod, 1, BrandY) >>

SohRowsB1 == << SohRow(BoseWh, P1, Amp, 2, BrandX),
                SohRow(IcareB, P1, Amp, 1, BrandX),
                SohRow(BoseA, P2, ApplePod, 1, BrandY) >>

SohRowsB2 == << SohRow(ImagineC, P1raw, Amp, 1, BrandX),
                SohRow(ImagineC, P1raw, AmpRaw, 1, BrandX),
                SohRow(BoseWh, P2, ApplePod, 1, NaN) >>

\* files in which one store is short of two products and another store holds
\* stock of both
SalesRowsB3 == << SalesRow(BoseA, P1, Amp, 2, BrandX),
                  SalesRow(BoseA, P2, ApplePod, 1, BrandX) >>

SohRowsB3 == << SohRow(IcareB, P1, Amp, 1, BrandX),
                SohRow(IcareB, P2, ApplePod, 1, BrandX),
                SohRow(BoseWh, P1, Amp, 1, BrandX) >>

WhitelistsB == { <<>>, <<NaN, NanWord>>, <<P1>>, <<P1raw>>, <<P2, NaN>>, <<P1, P2>> }

BrandColumnsB == { <<TRUE, TRUE>>, <<TRUE, FALSE>>, <<FALSE, FALSE>> }

Without(cols, gone) == cols \ gone

(***************************************************************************)
(* State                                                                   *)
(***************************************************************************)
VARIABLES
    script,             \* which of the two scripts is deployed
    sales_file,         \* the uploaded Sales CSV: columns and rows
    soh_file,           \* the uploaded Stock (SOH) CSV
    format_file,        \* the uploaded Format Template CSV: the Part No cells
    ui_brands,          \* the brand check boxes that are ticked
    ui_store_brands,    \* the store brand check boxes that are ticked
    pc,                 \* the script's position in the current run
    message,            \* what st.error reported, if anything
    df_sales,           \* the sales rows still in play
    df_soh,             \* the stock rows still in play
    valid_parts,        \* the whitelist after normalisation
    sales_agg,          \* (Store, Part No, Sales) per key, sorted by key
    soh_agg,            \* (Store, Part No, Stock) per key, sorted by key
    prod_lookup,        \* (ProductCode, ProductName), first name per code
    df_merged,          \* the Balance rows
    stock_lu,           \* (store, part) -> Stock
    sales_lu,           \* (store, part) -> Sales
    prod_map,           \* part -> Product
    warehouse_by_prod,  \* part -> the warehouse stores, in row order
    stores_by_prod,     \* part -> the stores with positive stock, in row order
    available,          \* the availability pool
    movements,          \* the movements emitted so far
    processed,          \* the (dest, part) pairs already handled
    pairs,              \* the shortfall rows, in row order
    i,                  \* index of the pair being handled
    dest, part, rem,    \* the pair being handled and what it still lacks
    srcs,               \* the sources the current phase iterates over
    j,                  \* index into srcs
    began,              \* per handled pair, the pool as it stood when the pair began
    result,             \* the enriched movement table of this run
    prev_result         \* what the previous run of the script reported

inputVars == <<script, sales_file, soh_file, format_file, ui_brands, ui_store_brands>>

frameVars == <<df_sales, df_soh, valid_parts>>

aggVars == <<sales_agg, soh_agg, prod_lookup, df_merged>>

lookupVars == <<stock_lu, sales_lu, prod_map, warehouse_by_prod, stores_by_prod, pairs>>

loopVars == <<i, dest, part, rem, srcs, j>>

allocVars == <<available, movements, processed, began>>

vars == <<inputVars, pc, message, frameVars, aggVars, lookupVars, loopVars,
          allocVars, result, prev_result>>

NoMessage == [kind |-> "none", table |-> "", column |-> ""]

\* the state of the script's own variables before its first statement
Fresh ==
    /\ pc = "load"
    /\ message = NoMessage
    /\ df_sales = <<>> /\ df_soh = <<>> /\ valid_parts = {}
    /\ sales_agg = <<>> /\ soh_agg = <<>> /\ prod_lookup = <<>> /\ df_merged = <<>>
    /\ stock_lu = <<>> /\ sales_lu = <<>> /\ prod_map = <<>>
    /\ warehouse_by_prod = <<>> /\ stores_by_prod = <<>> /\ pairs = <<>>
    /\ i = 0 /\ dest = <<>> /\ part = <<>> /\ rem = 0 /\ srcs = <<>> /\ j = 0
    /\ available = <<>> /\ movements = <<>> /\ processed = {} /\ began = <<>>
    /\ result = <<>>

\* one product, every store on both sides, all quantity splits within the totals
InitAllocation ==
    /\ script = "main"
    /\ \E q \in QtyVectors(MaxTotalSales) : sales_file = SalesFileOf(q)
    /\ \E q \in QtyVectors(MaxTotalStock) : soh_file = SohFileOf(q)
    /\ format_file = FormatFileOf(<<P1>>)
    /\ ui_brands = {}
    /\ ui_store_brands = {}

\* the same files within the smaller totals
InitLiveAllocation ==
    /\ script = "main"
    /\ \E q \in QtyVectors(MaxLiveSales) : sales_file = SalesFileOf(q)
    /\ \E q \in QtyVectors(MaxLiveStock) : soh_file = SohFileOf(q)
    /\ format_file = FormatFileOf(<<P1>>)
    /\ ui_brands = {}
    /\ ui_store_brands = {}

\* raw product codes, whitelists, brand columns and check boxes
InitFilters ==
    /\ script \in Scripts
    /\ \E cols \in BrandColumnsB, rows \in {SalesRowsB1, SalesRowsB2, SalesRowsB3} :
          /\ sales_file = [columns |-> IF cols[1] THEN AllSalesColumns
                                       ELSE Without(AllSalesColumns, {"BrandName"}),
                           rows |-> rows]
          /\ \E srows \in {SohRowsB1, SohRowsB2, SohRowsB3} :
                soh_file = [columns |-> IF cols[2] THEN AllSohColumns
                                        ELSE Without(AllSohColumns, {"Brand"}),
                            rows |-> srows]
    /\ \E parts \in WhitelistsB : format_file = FormatFileOf(parts)
    /\ ui_brands \in {{}, {BrandX}}
    /\ ui_store_brands \in {{}, {store_brands[1]}}

\* files that lack at most one required column each
InitColumns ==
    /\ script \in Scripts
    /\ \E gone \in {{}} \cup {{SalesRequired[k]} : k \in DOMAIN SalesRequired} :
          sales_file = [columns |-> Without(AllSalesColumns, gone), rows |-> SalesRowsB1]
    /\ \E gone \in {{}} \cup {{SohRequired[k]} : k \in DOMAIN SohRequired} :
          soh_file = [columns |-> Without(AllSohColumns, gone), rows |-> SohRowsB1]
    /\ \E gone \in {{}, {"Part No"}} :
          format_file = [columns |-> Without({"Part No"}, gone), rows |-> <<P1>>]
    /\ ui_brands = {}
    /\ ui_store_brands = {}

Init ==
    /\ \/ InitAllocation
       \/ InitFilters
       \/ InitColumns
    /\ Fresh
    /\ prev_result = [ran |-> FALSE, pc |-> "load", movements |-> <<>>]

InitLive ==
    /\ \/ InitLiveAllocation
       \/ InitFilters
       \/ InitColumns
    /\ Fresh
    /\ prev_result = [ran |-> FALSE, pc |-> "load", movements |-> <<>>]

(***************************************************************************)
(* Step 0: load, normalise the product names, validate, whitelist          *)
(***************************************************************************)
\* df['ProductName'].astype(str).str.strip().str.upper()
NormalizeNames(rows) ==
    [k \in DOMAIN rows |-> [rows[k] EXCEPT !.ProductName = Normalize(@)]]

HasProductName == "ProductName" \in sales_file.columns /\ "ProductName" \in soh_file.columns

\* the files are read and the product names normalised
LoadFiles ==
    /\ pc = "load"
    /\ HasProductName
    /\ df_sales' = NormalizeNames(sales_file.rows)
    /\ df_soh' = NormalizeNames(soh_file.rows)
    /\ pc' = "validate"
    /\ UNCHANGED <<inputVars, message, valid_parts, aggVars, lookupVars, loopVars,
                   allocVars, result, prev_result>>

\* df['ProductName'] of a file without that column raises KeyError, which the
\* script's except clause reports as "Error: 'ProductName'"
LoadFilesKeyError ==
    /\ pc = "load"
    /\ ~HasProductName
    /\ df_sales' = IF "ProductName" \in sales_file.columns
                   THEN NormalizeNames(sales_file.rows)
                   ELSE sales_file.rows
    /\ df_soh' = soh_file.rows
    /\ message' = [kind |-> "Error", table |-> "", column |-> "ProductName"]
    /\ pc' = "error"
    /\ UNCHANGED <<inputVars, valid_parts, aggVars, lookupVars, loopVars,
                   allocVars, result, prev_result>>

Absent(required, columns) ==
    LET gone(c) == c \notin columns IN SelectSeq(required, gone)

\* the st.error the validation loops reach first, as <<table, column>>
FirstMissing ==
    LET s == Absent(SalesRequired, sales_file.columns)
        h == Absent(SohRequired, soh_file.columns)
        f == Absent(FormatRequired, format_file.columns)
    IN  IF s # <<>> THEN <<"Sales CSV", s[1]>>
        ELSE IF h # <<>> THEN <<"SOH CSV", h[1]>>
        ELSE IF f # <<>> THEN <<"Format Template CSV", f[1]>>
        ELSE <<>>

ValidateColumns ==
    /\ pc = "validate"
    /\ FirstMissing = <<>>
    /\ pc' = "filter"
    /\ UNCHANGED <<inputVars, message, frameVars, aggVars, lookupVars, loopVars,
                   allocVars, result, prev_result>>

\* st.error("Missing in <table>: <column>") and st.stop()
ValidateColumnsStop ==
    /\ pc = "validate"
    /\ FirstMissing # <<>>
    /\ message' = [kind |-> "Missing in", table |-> FirstMissing[1],
                   column |-> FirstMissing[2]]
    /\ pc' = "stopped"
    /\ UNCHANGED <<inputVars, frameVars, aggVars, lookupVars, loopVars,
                   allocVars, result, prev_result>>

\* df_format['Part No'].dropna().astype(str).str.strip().str.upper(), then
\* the entries that do not read 'nan'
ValidParts(cells) ==
    LET present(v) == v # NaN
        parts == SelectSeq(cells, present)
    IN  {p \in {Normalize(parts[k]) : k \in DOMAIN parts} : str_lower(p) # NanWord}

\* faulty variant of FilterByParts: no row is dropped
FilterByParts_KeepsAll(rows, valid) == rows

\* df[df['ProductCode'].astype(str).str.strip().str.upper().isin(valid)]
FilterByParts(rows, valid) ==
    LET keep(r) == Normalize(r.ProductCode) \in valid IN SelectSeq(rows, keep)

WhitelistFilter ==
    /\ pc = "filter"
    /\ valid_parts' = ValidParts(format_file.rows)
    /\ IF valid_parts' # {}
       THEN /\ df_sales' = FilterByParts(df_sales, valid_parts')
            /\ df_soh' = FilterByParts(df_soh, valid_parts')
       ELSE UNCHANGED <<df_sales, df_soh>>
    /\ pc' = "clean"
    /\ UNCHANGED <<inputVars, message, aggVars, lookupVars, loopVars,
                   allocVars, result, prev_result>>

(***************************************************************************)
(* Step 1: data cleaning                                                   *)
(***************************************************************************)
RECURSIVE SortStrings(_)
\* sorted(set(...)) over text
SortStrings(S) ==
    IF S = {} THEN <<>>
    ELSE LET m == CHOOSE a \in S : \A b \in S \ {a} : str_less(a, b)
         IN  <<m>> \o SortStrings(S \ {m})

brands_sales ==
    IF "BrandName" \in sales_file.columns
    THEN {df_sales[k].BrandName : k \in DOMAIN df_sales} \ {NaN}
    ELSE {}

brands_soh ==
    IF "Brand" \in soh_file.columns
    THEN {df_soh[k].Brand : k \in DOMAIN df_soh} \ {NaN}
    ELSE {}

all_brands == SortStrings(brands_sales \cup brands_soh)

\* the brands whose check box is ticked, in the order of all_brands
selected_brands ==
    LET ticked(b) == b \in ui_brands IN SelectSeq(all_brands, ticked)

\* main.py: the brand check boxes, then, inside the store brand loop, the
\* brand filter, once per store brand
BrandSelection ==
    /\ pc = "clean"
    /\ script = "main"
    /\ all_brands # <<>>
    /\ LET chosen == Range(selected_brands)
           keepSales(r) == r.BrandName \in chosen
           keepSoh(r) == r.Brand \in chosen
       IN  /\ df_sales' = IF chosen # {} /\ "BrandName" \in sales_file.columns
                          THEN SelectSeq(df_sales, keepSales)
                          ELSE df_sales
           /\ df_soh' = IF chosen # {} /\ "Brand" \in soh_file.columns
                        THEN SelectSeq(df_soh, keepSoh)
                        ELSE df_soh
    /\ pc' = "stores"
    /\ UNCHANGED <<inputVars, message, valid_parts, aggVars, lookupVars, loopVars,
                   allocVars, result, prev_result>>

\* main.py: with no brand at all selected_brands is never assigned, and the
\* brand filter inside the store brand loop raises NameError
BrandSelectionNameError ==
    /\ pc = "clean"
    /\ script = "main"
    /\ all_brands = <<>>
    /\ message' = [kind |-> "Error", table |-> "", column |-> "selected_brands"]
    /\ pc' = "error"
    /\ UNCHANGED <<inputVars, frameVars, aggVars, lookupVars, loopVars,
                   allocVars, result, prev_result>>

selected_store_brands ==
    LET ticked(b) == b \in ui_store_brands IN SelectSeq(store_brands, ticked)

\* store_filter(store_name, selected_stores)
store_filter(store_name, selected_stores) ==
    /\ store_name # NaN
    /\ \E k \in DOMAIN selected_stores :
          str_contains(str_lower(store_name), str_lower(selected_stores[k]))

StoreBrandFilter ==
    /\ pc = "stores"
    /\ LET keep(r) == store_filter(r.StoreName, selected_store_brands)
       IN  IF selected_store_brands # <<>>
           THEN /\ df_sales' = SelectSeq(df_sales, keep)
                /\ df_soh' = SelectSeq(df_soh, keep)
           ELSE UNCHANGED <<df_sales, df_soh>>
    /\ pc' = "check"
    /\ UNCHANGED <<inputVars, message, valid_parts, aggVars, lookupVars, loopVars,
                   allocVars, result, prev_result>>

FinalDataCheck ==
    /\ pc = "check"
    /\ df_sales # <<>>
    /\ df_soh # <<>>
    /\ pc' = "aggregate"
    /\ UNCHANGED <<inputVars, message, frameVars, aggVars, lookupVars, loopVars,
                   allocVars, result, prev_result>>

\* st.error("No data remaining after filtering. ...") and st.stop()
FinalDataCheckStop ==
    /\ pc = "check"
    /\ ~(df_sales # <<>> /\ df_soh # <<>>)
    /\ message' = [kind |-> "No data remaining", table |-> "", column |-> ""]
    /\ pc' = "stopped"
    /\ UNCHANGED <<inputVars, frameVars, aggVars, lookupVars, loopVars,
                   allocVars, result, prev_result>>

\* consolidation_webapp/main.py: the sales rows naming 'apple' are removed
RemoveApple ==
    /\ pc = "clean"
    /\ script = "webapp"
    /\ LET keep(r) == ~str_contains(str_lower(r.ProductName), AppleWord)
       IN  df_sales' = SelectSeq(df_sales, keep)
    /\ pc' = "aggregate"
    /\ UNCHANGED <<inputVars, message, df_soh, valid_parts, aggVars, lookupVars,
                   loopVars, allocVars, result, prev_result>>

(***************************************************************************)
(* Step 2: aggregation.  Step 3: merge and forecast                        *)
(***************************************************************************)
\* (store, part) keys in the order pandas sorts group and outer-join keys by
key_less(a, b) ==
    \/ str_less(a[1], b[1])
    \/ a[1] = b[1] /\ str_less(a[2], b[2])

RECURSIVE SortKeys(_)
SortKeys(S) ==
    IF S = {} THEN <<>>
    ELSE LET m == CHOOSE a \in S : \A b \in S \ {a} : key_less(a, b)
         IN  <<m>> \o SortKeys(S \ {m})

RECURSIVE SumWhere(_, _, _, _)
\* the sum of vals[k] over the first n rows whose key is key
SumWhere(keys, vals, key, n) ==
    IF n = 0 THEN 0
    ELSE (IF keys[n] = key THEN vals[n] ELSE 0) + SumWhere(keys, vals, key, n - 1)

\* groupby(['StoreName','ProductCode'], as_index=False).agg(sum): one row per
\* key without a missing part, sorted by key
GroupBySum(keys, vals) ==
    LET groups == SortKeys({k \in Range(keys) : k[1] # NaN /\ k[2] # NaN})
    IN  [g \in DOMAIN groups |->
            [Store |-> groups[g][1], PartNo |-> groups[g][2],
             Total |-> SumWhere(keys, vals, groups[g], Len(keys))]]

RowKeys(rows) == [k \in DOMAIN rows |-> <<rows[k].StoreName, rows[k].ProductCode>>]

RECURSIVE FirstOfEach(_, _, _)
\* the rows of the first n whose key no earlier row has (drop_duplicates)
FirstOfEach(rows, keys, n) ==
    IF n = 0 THEN <<>>
    ELSE LET before == FirstOfEach(rows, keys, n - 1)
         IN  IF \E m \in 1..(n - 1) : keys[m] = keys[n]
             THEN before
             ELSE Append(before, rows[n])

\* pd.concat([df_sales[[code, name]], df_soh[[code, name]]])
NamePairs ==
    [k \in DOMAIN df_sales |->
        [ProductCode |-> df_sales[k].ProductCode, ProductName |-> df_sales[k].ProductName]]
    \o
    [k \in DOMAIN df_soh |->
        [ProductCode |-> df_soh[k].ProductCode, ProductName |-> df_soh[k].ProductName]]

\* .drop_duplicates('ProductCode')
DropDuplicateCodes(names) ==
    FirstOfEach(names, [k \in DOMAIN names |-> names[k].ProductCode], Len(names))

Aggregate ==
    /\ pc = "aggregate"
    /\ sales_agg' =
          LET g == GroupBySum(RowKeys(df_sales),
                              [k \in DOMAIN df_sales |-> df_sales[k].Quantity])
          IN  [k \in DOMAIN g |->
                  [Store |-> g[k].Store, PartNo |-> g[k].PartNo, Sales |-> g[k].Total]]
    /\ soh_agg' =
          LET g == GroupBySum(RowKeys(df_soh),
                              [k \in DOMAIN df_soh |-> df_soh[k].ActualStock])
          IN  [k \in DOMAIN g |->
                  [Store |-> g[k].Store, PartNo |-> g[k].PartNo, Stock |-> g[k].Total]]
    /\ prod_lookup' = DropDuplicateCodes(NamePairs)
    /\ pc' = "merge"
    /\ UNCHANGED <<inputVars, message, frameVars, df_merged, lookupVars, loopVars,
                   allocVars, result, prev_result>>

AggKeys(agg) == {<<agg[k].Store, agg[k].PartNo>> : k \in DOMAIN agg}

\* faulty variant of JoinKeys: the keys of an inner join
JoinKeys_Inner(left, right) == AggKeys(left) \cap AggKeys(right)

\* the keys of an outer join: those of either side; of an inner join: of both
JoinKeys(left, right) == AggKeys(left) \cup AggKeys(right)

\* the cell an outer join holds for a key: <<value>>, or <<>> when the side
\* has no row for it
SalesCell(key) ==
    LET hit(r) == <<r.Store, r.PartNo>> = key
        rows == SelectSeq(sales_agg, hit)
    IN  [k \in DOMAIN rows |-> rows[k].Sales]

StockCell(key) ==
    LET hit(r) == <<r.Store, r.PartNo>> = key
        rows == SelectSeq(soh_agg, hit)
    IN  [k \in DOMAIN rows |-> rows[k].Stock]

\* .fillna({'Sales':0,'Stock':0})
fillna(cell) == IF cell = <<>> THEN 0 ELSE cell[1]

\* pd.merge(sales_agg, soh_agg, on=['Store','Part No'], how='outer').fillna(..)
OuterMerge ==
    LET keys == SortKeys(JoinKeys(sales_agg, soh_agg))
    IN  [k \in DOMAIN keys |->
            [Store |-> keys[k][1], PartNo |-> keys[k][2],
             Sales |-> fillna(SalesCell(keys[k])),
             Stock |-> fillna(StockCell(keys[k]))]]

RECURSIVE LeftMergeNames(_, _, _)
\* pd.merge(df_merged, prod_lookup, left_on='Part No', right_on='ProductCode',
\* how='left'): one row per matching lookup row, a missing name when none
LeftMergeNames(left, lookup, n) ==
    IF n = 0 THEN <<>>
    ELSE LET row == left[n]
             hit(r) == r.ProductCode = row.PartNo
             hits == SelectSeq(lookup, hit)
             named(name) ==
                 [Store |-> row.Store, PartNo |-> row.PartNo, Sales |-> row.Sales,
                  Stock |-> row.Stock, Product |-> name, Forecast_Demand |-> row.Sales]
         IN  LeftMergeNames(left, lookup, n - 1) \o
             (IF hits = <<>> THEN <<named(NaN)>>
              ELSE [h \in DOMAIN hits |-> named(hits[h].ProductName)])

Merge ==
    /\ pc = "merge"
    /\ df_merged' = LeftMergeNames(OuterMerge, prod_lookup, Len(OuterMerge))
    /\ pc' = "lookups"
    /\ UNCHANGED <<inputVars, message, frameVars, sales_agg, soh_agg, prod_lookup,
                   lookupVars, loopVars, allocVars, result, prev_result>>

(***************************************************************************)
(* Step 4: the lookups and the allocation loop                             *)
(***************************************************************************)
MergedKeys == [k \in DOMAIN df_merged |-> <<df_merged[k].Store, df_merged[k].PartNo>>]

\* {key(r): value(r) for r in rows}: the last row of a key gives its value
DictOf(keys, vals) ==
    [key \in Range(keys) |->
        vals[CHOOSE k \in DOMAIN keys :
                keys[k] = key /\ \A m \in DOMAIN keys : keys[m] = key => m <= k]]

\* the keys of a dict in insertion order
ItemsOrder(keys) == FirstOfEach(keys, keys, Len(keys))

\* d.get(key, [])
GetList(d, key) == IF key \in DOMAIN d THEN d[key] ELSE <<>>

\* d.get(key, 0)
GetNumber(d, key) == IF key \in DOMAIN d THEN d[key] ELSE 0

\* the stores a loop over items appends to by_prod[part], those that pass
StoresWhere(items, p, Pass(_)) ==
    LET hit(key) == key[2] = p /\ Pass(key)
        keys == SelectSeq(items, hit)
    IN  [k \in DOMAIN keys |-> keys[k][1]]

\* setdefault(part, []).append(store) over the items that pass
ByProd(items, Pass(_)) ==
    [p \in {items[k][2] : k \in {m \in DOMAIN items : Pass(items[m])}} |->
        StoresWhere(items, p, Pass)]

\* df_merged[['Store','Part No','Forecast_Demand','Stock']].drop_duplicates(),
\* then the rows with Forecast_Demand > Stock
ShortfallPairs ==
    LET cols == [k \in DOMAIN df_merged |->
                    [Store |-> df_merged[k].Store, PartNo |-> df_merged[k].PartNo,
                     Forecast_Demand |-> df_merged[k].Forecast_Demand,
                     Stock |-> df_merged[k].Stock]]
        short(r) == r.Forecast_Demand > r.Stock
    IN  SelectSeq(FirstOfEach(cols, cols, Len(cols)), short)

BuildLookups ==
    /\ pc = "lookups"
    /\ stock_lu' = DictOf(MergedKeys, [k \in DOMAIN df_merged |-> df_merged[k].Stock])
    /\ sales_lu' = DictOf(MergedKeys, [k \in DOMAIN df_merged |-> df_merged[k].Sales])
    /\ prod_map' = DictOf([k \in DOMAIN df_merged |-> df_merged[k].PartNo],
                          [k \in DOMAIN df_merged |-> df_merged[k].Product])
    /\ LET items == ItemsOrder(MergedKeys)
           isWh(key) == IsWarehouse(key[1])
           stocked(key) == stock_lu'[key] > 0
       IN  /\ warehouse_by_prod' = ByProd(items, isWh)
           /\ stores_by_prod' = ByProd(items, stocked)
    /\ available' = stock_lu'
    /\ movements' = <<>>
    /\ processed' = {}
    /\ began' = <<>>
    /\ pairs' = ShortfallPairs
    /\ i' = 0
    /\ pc' = "pairs"
    /\ UNCHANGED <<inputVars, message, frameVars, aggVars, dest, part, rem, srcs, j,
                   result, prev_result>>

\* the next shortfall row; a pair seen before is passed over
NextPair ==
    /\ pc = "pairs"
    /\ i < Len(pairs)
    /\ i' = i + 1
    /\ dest' = pairs[i + 1].Store
    /\ part' = pairs[i + 1].PartNo
    /\ IF <<dest', part'>> \in processed
       THEN /\ pc' = "pairs"
            /\ UNCHANGED <<processed, began, rem, srcs, j>>
       ELSE /\ processed' = processed \cup {<<dest', part'>>}
            /\ began' = [key \in processed' |->
                            IF key \in processed THEN began[key] ELSE available]
            /\ rem' = pairs[i + 1].Forecast_Demand - pairs[i + 1].Stock
            /\ srcs' = GetList(warehouse_by_prod, part')
            /\ j' = 1
            /\ pc' = "warehouse"
    /\ UNCHANGED <<inputVars, message, frameVars, aggVars, lookupVars, available,
                   movements, result, prev_result>>

Min(a, b) == IF a <= b THEN a ELSE b

\* faulty variant of DrawQty: the whole availability is taken, whatever the
\* pair still lacks
DrawQty_TakesAll(avail, remaining) == avail

\* faulty variant of DrawQty: the whole remainder is taken, whatever the
\* source still has
DrawQty_TakesRemaining(avail, remaining) == remaining

\* qty = min(avail, rem)
DrawQty(avail, remaining) == Min(avail, remaining)

Movement(src, qty) ==
    [ProductName |-> prod_map[part], Product |-> part, Source |-> src,
     Destination |-> dest, Quantity |-> qty]

\* faulty variant of Draw: the pool is not lowered by the quantity drawn
Draw_PoolKept(src) ==
    LET qty == Min(available[<<src, part>>], rem)
    IN  IF qty > 0
        THEN /\ movements' = Append(movements, Movement(src, qty))
             /\ rem' = rem - qty
             /\ UNCHANGED available
        ELSE UNCHANGED <<movements, available, rem>>

\* faulty variant of Draw: the draw lowers the source store's pool entry of
\* every product
Draw_StoreWide(src) ==
    LET qty == Min(available[<<src, part>>], rem)
    IN  IF qty > 0
        THEN /\ movements' = Append(movements, Movement(src, qty))
             /\ available' = [key \in DOMAIN available |->
                                 IF key[1] = src
                                 THEN available[key] - Min(qty, available[key])
                                 ELSE available[key]]
             /\ rem' = rem - qty
        ELSE UNCHANGED <<movements, available, rem>>

\* the draw from src: a movement when qty > 0, the pool and rem lowered by it
Draw(src) ==
    LET qty == DrawQty(available[<<src, part>>], rem)
    IN  IF qty > 0
        THEN /\ movements' = Append(movements, Movement(src, qty))
             /\ available' = [available EXCEPT ![<<src, part>>] = @ - qty]
             /\ rem' = rem - qty
        ELSE UNCHANGED <<movements, available, rem>>

\* faulty variant of WarehouseSkips: every warehouse is passed over
WarehouseSkips_All(src) == TRUE

\* faulty variant of WarehouseSkips: the test on the destination is inverted,
\* so every other warehouse is passed over
WarehouseSkips_Others(src) == src # dest \/ rem <= 0

\* faulty variant of WarehouseSkips: the destination itself is not passed over
WarehouseSkips_SelfDrawn(src) == rem <= 0

\* if src == dest or rem <= 0: continue
WarehouseSkips(src) == src = dest \/ rem <= 0

\* one iteration of the warehouse loop
WarehouseStep ==
    /\ pc = "warehouse"
    /\ j <= Len(srcs)
    /\ IF WarehouseSkips(srcs[j])
       THEN UNCHANGED <<movements, available, rem>>
       ELSE Draw(srcs[j])
    /\ j' = j + 1
    /\ UNCHANGED <<inputVars, pc, message, frameVars, aggVars, lookupVars, i, dest,
                   part, srcs, processed, began, result, prev_result>>

\* faulty variant of Candidates: only the first candidate is kept
Candidates_FirstOnly ==
    LET ok(s) == s # dest /\ ~IsWarehouse(s)
        all == SelectSeq(GetList(stores_by_prod, part), ok)
    IN  SubSeq(all, 1, Min(1, Len(all)))

\* s for s in stores_by_prod.get(part, []) if s != dest and not a warehouse
Candidates ==
    LET ok(s) == s # dest /\ ~IsWarehouse(s)
    IN  SelectSeq(GetList(stores_by_prod, part), ok)

RECURSIVE SortByKey_TiesReversed(_, _, _)
\* faulty variant of SortByKey: an element goes before the earlier elements
\* of equal key (an unstable sort)
SortByKey_TiesReversed(seq, key, n) ==
    IF n = 0 THEN <<>>
    ELSE LET before == SortByKey_TiesReversed(seq, key, n - 1)
             at == Cardinality({m \in DOMAIN before : key[before[m]] < key[seq[n]]})
         IN  SubSeq(before, 1, at) \o <<seq[n]>> \o SubSeq(before, at + 1, Len(before))

RECURSIVE SortByKey(_, _, _)
\* list.sort(key=...) over the first n elements: ascending, equal keys in
\* their original order
SortByKey(seq, key, n) ==
    IF n = 0 THEN <<>>
    ELSE LET before == SortByKey(seq, key, n - 1)
             at == Cardinality({m \in DOMAIN before : key[before[m]] <= key[seq[n]]})
         IN  SubSeq(before, 1, at) \o <<seq[n]>> \o SubSeq(before, at + 1, Len(before))

\* faulty variant of SortCandidates: the candidates stay in enumeration order
SortCandidates_Unsorted(candidates) == candidates

\* candidates.sort(key=lambda s: sales_lu.get((s, part), 0))
SortCandidates(candidates) ==
    SortByKey(candidates,
              [s \in Range(candidates) |-> GetNumber(sales_lu, <<s, part>>)],
              Len(candidates))

\* the warehouses left rem > 0: the retail candidates, lowest sales first
RetailFallback ==
    /\ pc = "warehouse"
    /\ j > Len(srcs)
    /\ rem > 0
    /\ srcs' = SortCandidates(Candidates)
    /\ j' = 1
    /\ pc' = "retail"
    /\ UNCHANGED <<inputVars, message, frameVars, aggVars, lookupVars, i, dest, part,
                   rem, allocVars, result, prev_result>>

\* the warehouses covered the shortfall: on to the next pair
WarehouseCovered ==
    /\ pc = "warehouse"
    /\ j > Len(srcs)
    /\ rem <= 0
    /\ pc' = "pairs"
    /\ UNCHANGED <<inputVars, message, frameVars, aggVars, lookupVars, loopVars,
                   allocVars, result, prev_result>>

\* one iteration of the retail loop
RetailStep ==
    /\ pc = "retail"
    /\ j <= Len(srcs)
    /\ rem > 0
    /\ Draw(srcs[j])
    /\ j' = j + 1
    /\ UNCHANGED <<inputVars, pc, message, frameVars, aggVars, lookupVars, i, dest,
                   part, srcs, processed, began, result, prev_result>>

\* faulty variant of RetailEnd: a pair still short after its candidates is
\* taken through the warehouses and the candidates again
RetailEnd_StartsOver ==
    /\ pc = "retail"
    /\ ~(j <= Len(srcs) /\ rem > 0)
    /\ pc' = IF rem > 0 THEN "warehouse" ELSE "pairs"
    /\ UNCHANGED <<inputVars, message, frameVars, aggVars, lookupVars, loopVars,
                   allocVars, result, prev_result>>

\* the candidates are exhausted or rem <= 0 broke the loop
RetailEnd ==
    /\ pc = "retail"
    /\ ~(j <= Len(srcs) /\ rem > 0)
    /\ pc' = "pairs"
    /\ UNCHANGED <<inputVars, message, frameVars, aggVars, lookupVars, loopVars,
                   allocVars, result, prev_result>>

(***************************************************************************)
(* The allocation loop as a function of the shortfall rows and the pool,   *)
(* over the lookups of the run: [pool, rem, moves, seen] after the rows    *)
(***************************************************************************)
\* qty = min(avail, rem); if qty > 0: the movement, the pool and rem lowered
DrawFrom(st, src, d, p) ==
    LET qty == DrawQty(st.pool[<<src, p>>], st.rem)
    IN  IF qty > 0
        THEN [st EXCEPT !.pool = [st.pool EXCEPT ![<<src, p>>] = @ - qty],
                        !.rem = st.rem - qty,
                        !.moves = Append(st.moves,
                                         [ProductName |-> prod_map[p], Product |-> p,
                                          Source |-> src, Destination |-> d,
                                          Quantity |-> qty])]
        ELSE st

RECURSIVE WarehouseLoop(_, _, _, _, _)
\* for src in warehouse_by_prod.get(part, []), over the first n of them
WarehouseLoop(st, list, n, d, p) ==
    IF n = 0 THEN st
    ELSE LET before == WarehouseLoop(st, list, n - 1, d, p)
         IN  IF list[n] = d \/ before.rem <= 0 THEN before
             ELSE DrawFrom(before, list[n], d, p)

RECURSIVE RetailLoop(_, _, _, _, _)
\* for src in candidates, over the first n of them; rem <= 0 breaks
RetailLoop(st, list, n, d, p) ==
    IF n = 0 THEN st
    ELSE LET before == RetailLoop(st, list, n - 1, d, p)
         IN  IF before.rem <= 0 THEN before
             ELSE DrawFrom(before, list[n], d, p)

\* the sorted candidates of a pair
CandidatesOf(d, p) ==
    LET ok(s) == s # d /\ ~IsWarehouse(s)
        c == SelectSeq(GetList(stores_by_prod, p), ok)
    IN  SortByKey(c, [s \in Range(c) |-> GetNumber(sales_lu, <<s, p>>)], Len(c))

\* the body of the loop over pairs for one row
PairLoop(st, row) ==
    IF <<row.Store, row.PartNo>> \in st.seen THEN st
    ELSE LET d == row.Store
             p == row.PartNo
             start == [st EXCEPT !.seen = @ \cup {<<d, p>>},
                                 !.rem = row.Forecast_Demand - row.Stock]
             wh == GetList(warehouse_by_prod, p)
             afterWh == WarehouseLoop(start, wh, Len(wh), d, p)
             cand == CandidatesOf(d, p)
         IN  IF afterWh.rem > 0 THEN RetailLoop(afterWh, cand, Len(cand), d, p)
             ELSE afterWh

RECURSIVE AllocationLoop(_, _, _)
\* the loop over the first n rows, from the given pool
AllocationLoop(rows, n, pool) ==
    IF n = 0 THEN [pool |-> pool, rem |-> 0, moves |-> <<>>, seen |-> {}]
    ELSE PairLoop(AllocationLoop(rows, n - 1, pool), rows[n])

(***************************************************************************)
(* Results, and the rerun of the script                                    *)
(***************************************************************************)
\* faulty variant of Enriched: the stock columns are read from the pool
Enriched_FromPool(m) ==
    [ProductName |-> m.ProductName, Product |-> m.Product, Source |-> m.Source,
     Destination |-> m.Destination, Quantity |-> m.Quantity,
     From_SOH |-> available[<<m.Source, m.Product>>],
     To_SOH |-> available[<<m.Destination, m.Product>>],
     From_Sales |-> sales_lu[<<m.Source, m.Product>>],
     To_Sales |-> sales_lu[<<m.Destination, m.Product>>]]

\* result['From SOH'] = stock_lu[(r.Source, r.Product)], and the like
Enriched(m) ==
    [ProductName |-> m.ProductName, Product |-> m.Product, Source |-> m.Source,
     Destination |-> m.Destination, Quantity |-> m.Quantity,
     From_SOH |-> stock_lu[<<m.Source, m.Product>>],
     To_SOH |-> stock_lu[<<m.Destination, m.Product>>],
     From_Sales |-> sales_lu[<<m.Source, m.Product>>],
     To_Sales |-> sales_lu[<<m.Destination, m.Product>>]]

\* every key the enrichment looks up is in the lookups
EnrichmentKeysKnown ==
    \A k \in DOMAIN movements :
        /\ <<movements[k].Source, movements[k].Product>> \in DOMAIN stock_lu
        /\ <<movements[k].Destination, movements[k].Product>> \in DOMAIN stock_lu

\* the movement table is compiled and enriched; a failed lookup is a KeyError
\* the script's except clause reports
Compile ==
    /\ pc = "pairs"
    /\ i = Len(pairs)
    /\ IF EnrichmentKeysKnown
       THEN /\ result' = [k \in DOMAIN movements |-> Enriched(movements[k])]
            /\ pc' = "done"
            /\ UNCHANGED message
       ELSE /\ message' = [kind |-> "Error", table |-> "", column |-> "KeyError"]
            /\ pc' = "error"
            /\ UNCHANGED result
    /\ UNCHANGED <<inputVars, frameVars, aggVars, lookupVars, loopVars, allocVars,
                   prev_result>>

Ended == pc \in {"done", "stopped", "error"}

\* Streamlit executes the script again from its first line, with the same
\* uploaded files and check boxes
Rerun ==
    /\ Ended
    /\ prev_result' = [ran |-> TRUE, pc |-> pc, movements |-> result]
    /\ pc' = "load"
    /\ message' = NoMessage
    /\ df_sales' = <<>> /\ df_soh' = <<>> /\ valid_parts' = {}
    /\ sales_agg' = <<>> /\ soh_agg' = <<>> /\ prod_lookup' = <<>> /\ df_merged' = <<>>
    /\ stock_lu' = <<>> /\ sales_lu' = <<>> /\ prod_map' = <<>>
    /\ warehouse_by_prod' = <<>> /\ stores_by_prod' = <<>> /\ pairs' = <<>>
    /\ i' = 0 /\ dest' = <<>> /\ part' = <<>> /\ rem' = 0 /\ srcs' = <<>> /\ j' = 0
    /\ available' = <<>> /\ movements' = <<>> /\ processed' = {} /\ began' = <<>>
    /\ result' = <<>>
    /\ UNCHANGED inputVars

Next ==
    \/ LoadFiles
    \/ LoadFilesKeyError
    \/ ValidateColumns
    \/ ValidateColumnsStop
    \/ WhitelistFilter
    \/ BrandSelection
    \/ BrandSelectionNameError
    \/ StoreBrandFilter
    \/ FinalDataCheck
    \/ FinalDataCheckStop
    \/ RemoveApple
    \/ Aggregate
    \/ Merge
    \/ BuildLookups
    \/ NextPair
    \/ WarehouseStep
    \/ RetailFallback
    \/ WarehouseCovered
    \/ RetailStep
    \/ RetailEnd
    \/ Compile
    \/ Rerun

Spec == Init /\ [][Next]_vars

\* the steps of the allocation loop and of the compilation that follows it
AllocationStep ==
    \/ NextPair \/ WarehouseStep \/ RetailFallback \/ WarehouseCovered
    \/ RetailStep \/ RetailEnd \/ Compile

\* the interpreter keeps executing the loop: a loop step that can be taken is
\* taken; the steps before the loop and the rerun, which waits for the user,
\* carry no such condition
LiveSpec == InitLive /\ [][Next]_vars /\ WF_vars(AllocationStep)

(***************************************************************************)
(* Vocabulary of the properties                                            *)
(***************************************************************************)
\* the keys of the Balance set
BalanceKeys == Range(MergedKeys)

\* the Balance rows of a key
BalanceRows(key) == {k \in DOMAIN df_merged : MergedKeys[k] = key}

\* a key's original stock, forecast demand and sales (its Balance row)
StockTotal(key) == df_merged[CHOOSE k \in BalanceRows(key) : TRUE].Stock

ForecastDemand(key) == df_merged[CHOOSE k \in BalanceRows(key) : TRUE].Forecast_Demand

SalesTotal(key) == df_merged[CHOOSE k \in BalanceRows(key) : TRUE].Sales

IsShortfall(key) == ForecastDemand(key) > StockTotal(key)

Shortfall(key) == ForecastDemand(key) - StockTotal(key)

RECURSIVE QuantityOf(_, _)
\* the total quantity of the movements whose index is in idx
QuantityOf(moves, idx) ==
    IF idx = {} THEN 0
    ELSE LET k == CHOOSE m \in idx : TRUE
         IN  moves[k].Quantity + QuantityOf(moves, idx \ {k})

MovesFrom(key) ==
    {k \in DOMAIN movements :
        movements[k].Source = key[1] /\ movements[k].Product = key[2]}

MovesTo(key) ==
    {k \in DOMAIN movements :
        movements[k].Destination = key[1] /\ movements[k].Product = key[2]}

ShippedFrom(key) == QuantityOf(movements, MovesFrom(key))

ShippedTo(key) == QuantityOf(movements, MovesTo(key))

\* the movements of the retail phase: those with a non-warehouse source
RetailMoves == {k \in DOMAIN movements : ~IsWarehouse(movements[k].Source)}

(***************************************************************************)
(* C1  Conservation: whatever the run has emitted so far, every movement's *)
(* source is a Balance key, and for every (source store, product) the sum  *)
(* of the quantities shipped from it is at most its original stock total.  *)
(***************************************************************************)
C1_Conservation ==
    /\ \A k \in DOMAIN movements :
          <<movements[k].Source, movements[k].Product>> \in BalanceKeys
    /\ \A key \in BalanceKeys : ShippedFrom(key) <= StockTotal(key)

\* a finished run in which one source shipped its whole stock in two
\* movements, to two destinations
C1_Witness ==
    /\ pc = "done"
    /\ \E key \in BalanceKeys :
          /\ Cardinality(MovesFrom(key)) >= 2
          /\ ShippedFrom(key) = StockTotal(key)

(***************************************************************************)
(* C2  Coverage bound: for every shortfall pair the total quantity shipped *)
(* to it is at most forecastDemand - stockTotal, every destination is a    *)
(* Balance key, and a pair with forecastDemand <= stockTotal is the        *)
(* destination of no movement.                                             *)
(***************************************************************************)
C2_CoverageBound ==
    /\ \A k \in DOMAIN movements :
          <<movements[k].Destination, movements[k].Product>> \in BalanceKeys
    /\ \A key \in BalanceKeys :
          IF IsShortfall(key)
          THEN ShippedTo(key) <= Shortfall(key)
          ELSE MovesTo(key) = {}

\* a finished run in which a pair was covered exactly, by two movements, from
\* a source that held more than the pair still lacked, beside a store that
\* is not short
C2_Witness ==
    /\ pc = "done"
    /\ \E key \in BalanceKeys :
          /\ IsShortfall(key)
          /\ Cardinality(MovesTo(key)) >= 2
          /\ ShippedTo(key) = Shortfall(key)
          /\ \E k \in MovesTo(key) :
                available[<<movements[k].Source, key[2]>>] > 0
    /\ \E key \in BalanceKeys : ~IsShortfall(key) /\ StockTotal(key) > 0

(***************************************************************************)
(* C3  No self-transfer: no movement has its source equal to its           *)
(* destination, whichever phase emitted it.                                *)
(***************************************************************************)
C3_NoSelfTransfer ==
    \A k \in DOMAIN movements : movements[k].Source # movements[k].Destination

\* a finished run with a movement to a warehouse that holds stock itself, and
\* a retail movement to a store that holds stock itself
C3_Witness ==
    /\ pc = "done"
    /\ \E k \in DOMAIN movements :
          /\ IsWarehouse(movements[k].Destination)
          /\ StockTotal(<<movements[k].Destination, movements[k].Product>>) > 0
    /\ \E k \in RetailMoves :
          /\ ~IsWarehouse(movements[k].Destination)
          /\ StockTotal(<<movements[k].Destination, movements[k].Product>>) > 0

(***************************************************************************)
(* C4  Warehouse priority.                                                 *)
(*                                                                         *)
(* As claimed (C4_OriginalStock): for every shortfall pair, if some        *)
(* warehouse other than the destination has ORIGINAL stock of the product  *)
(* at least equal to the pair's shortfall, no retail-phase movement is     *)
(* emitted for the pair.  An earlier pair of the same product may have     *)
(* drawn that stock, so this fails with several destinations.              *)
(*                                                                         *)
(* As amended (C4_WarehousePriority): for every handled pair, if some      *)
(* warehouse other than the destination has, in the pool as it stands when *)
(* the pair's processing begins, at least the pair's shortfall, no         *)
(* retail-phase movement is emitted for the pair.                          *)
(***************************************************************************)
WarehousesFor(key) ==
    {w \in BalanceKeys : w[2] = key[2] /\ w[1] # key[1] /\ IsWarehouse(w[1])}

C4_OriginalStock ==
    \A key \in BalanceKeys :
        (/\ IsShortfall(key)
         /\ \E w \in WarehousesFor(key) : StockTotal(w) >= Shortfall(key))
        => MovesTo(key) \cap RetailMoves = {}

C4_WarehousePriority ==
    \A key \in DOMAIN began :
        (\E w \in WarehousesFor(key) : began[key][w] >= Shortfall(key))
        => MovesTo(key) \cap RetailMoves = {}

\* a finished run with two destinations of one product: one found the
\* warehouse sufficient and was served by it alone; the other, whose shortfall
\* the warehouse's original stock would have covered, found it drawn down and
\* was served by a retail store
C4_Witness ==
    /\ pc = "done"
    /\ \E a \in DOMAIN began, b \in DOMAIN began :
          /\ a # b /\ a[2] = b[2]
          /\ \E w \in WarehousesFor(a) : began[a][w] >= Shortfall(a)
          /\ MovesTo(a) # {}
          /\ \E w \in WarehousesFor(b) :
                StockTotal(w) >= Shortfall(b) /\ began[b][w] < Shortfall(b)
          /\ MovesTo(b) \cap RetailMoves # {}

(***************************************************************************)
(* C5  Low-seller-first: for every (destination, product) pair and any two *)
(* non-warehouse sources that both ship to it, the movement of the source  *)
(* with strictly lower aggregated sales comes earlier in the movement      *)
(* sequence.                                                               *)
(***************************************************************************)
SourceSales(k) == SalesTotal(<<movements[k].Source, movements[k].Product>>)

SamePair(a, b) ==
    /\ movements[a].Destination = movements[b].Destination
    /\ movements[a].Product = movements[b].Product

C5_LowSellerFirst ==
    \A a \in RetailMoves, b \in RetailMoves :
        (SamePair(a, b) /\ SourceSales(a) < SourceSales(b)) => a < b

\* a finished run in which two retail stores shipped to one pair and the lower
\* seller, which shipped first, is enumerated after the higher seller
C5_Witness ==
    /\ pc = "done"
    /\ \E a \in RetailMoves, b \in RetailMoves :
          /\ SamePair(a, b)
          /\ SourceSales(a) < SourceSales(b)
          /\ a < b
          /\ str_less(movements[b].Source, movements[a].Source)

(***************************************************************************)
(* C6  Determinism: a run of the script executed again on the same         *)
(* uploaded files and widget states ends the same way with the same        *)
(* movement table, entry by entry; and the retail candidates of a pair are *)
(* in ascending sales order with equal-sales candidates in the order       *)
(* stores_by_prod enumerates them.                                         *)
(***************************************************************************)
PlaceIn(seq, x) == CHOOSE k \in DOMAIN seq : seq[k] = x

Whitelisted(code) == Normalize(code) \in valid_parts

OutsideWhitelist(rows) == {k \in DOMAIN rows : ~Whitelisted(rows[k].ProductCode)}

C7_WhitelistFiltering ==
    valid_parts # {} =>
        /\ \A k \in DOMAIN df_merged : Whitelisted(df_merged[k].PartNo)
        /\ \A k \in DOMAIN movements : Whitelisted(movements[k].Product)
        /\ \A k \in DOMAIN result : Whitelisted(result[k].Product)
        /\ pc # "filter" => OutsideWhitelist(df_sales) = {} /\ OutsideWhitelist(df_soh) = {}
        /\ \A k \in OutsideWhitelist(sales_file.rows) \cup OutsideWhitelist(soh_file.rows) :
              \A store \in Range(StoreNames) :
                 LET code == IF k \in OutsideWhitelist(sales_file.rows)
                             THEN sales_file.rows[k].ProductCode
                             ELSE soh_file.rows[k].ProductCode
                 IN  /\ <<store, code>> \notin BalanceKeys
                     /\ MovesFrom(<<store, code>>) = {}
                     /\ MovesTo(<<store, code>>) = {}

\* a finished run with a movement, whose files both held rows outside the
\* whitelist and whose Balances hold a code that is whitelisted only in its
\* normalised form
C7_Witness ==
    /\ pc = "done"
    /\ valid_parts # {}
    /\ OutsideWhitelist(sales_file.rows) # {}
    /\ OutsideWhitelist(soh_file.rows) # {}
    /\ movements # <<>>
    /\ \E k \in DOMAIN df_merged : df_merged[k].PartNo \notin valid_parts

(***************************************************************************)
(* C8  Sources have surplus: the source of every movement holds more       *)
(* original stock of the product than its own forecast demand for it, so   *)
(* that no shortfall pair is the source of a movement of its product.      *)
(***************************************************************************)
C8_SourcesHaveSurplus ==
    \A k \in DOMAIN movements :
        LET src == <<movements[k].Source, movements[k].Product>>
        IN  /\ StockTotal(src) > ForecastDemand(src)
            /\ ~IsShortfall(src)

\* the two-store exchange: each of two retail stores holds 1 and sold 2, and
\* each ends up the source of a movement to the other
C8_Exchange ==
    /\ pc = "done"
    /\ Len(movements) = 2
    /\ movements[1].Source = IcareB /\ movements[1].Destination = BoseA
    /\ movements[2].Source = BoseA /\ movements[2].Destination = IcareB
    /\ StockTotal(<<BoseA, P1>>) = 1 /\ ForecastDemand(<<BoseA, P1>>) = 2
    /\ StockTotal(<<IcareB, P1>>) = 1 /\ ForecastDemand(<<IcareB, P1>>) = 2

(***************************************************************************)
(* C9  Balance merge: after the merge the Balance set has exactly one row  *)
(* for every (store, product) key of the aggregated sales or of the        *)
(* aggregated stock and none for another key; each row carries the         *)
(* aggregate's total of each side, 0 for a side without the key, and its   *)
(* forecast demand equals its sales total.                                 *)
(***************************************************************************)
Merged == pc \in {"lookups", "pairs", "warehouse", "retail", "done"}

AggRows(agg, key) == {k \in DOMAIN agg : <<agg[k].Store, agg[k].PartNo>> = key}

SalesSide(key) ==
    IF AggRows(sales_agg, key) = {} THEN 0
    ELSE sales_agg[CHOOSE k \in AggRows(sales_agg, key) : TRUE].Sales

StockSide(key) ==
    IF AggRows(soh_agg, key) = {} THEN 0
    ELSE soh_agg[CHOOSE k \in AggRows(soh_agg, key) : TRUE].Stock

C9_BalanceMerge ==
    Merged =>
        /\ BalanceKeys = AggKeys(sales_agg) \cup AggKeys(soh_agg)
        /\ \A key \in AggKeys(sales_agg) \cup AggKeys(soh_agg) :
              Cardinality(BalanceRows(key)) = 1
        /\ \A k \in DOMAIN df_merged :
              /\ df_merged[k].Sales = SalesSide(MergedKeys[k])
              /\ df_merged[k].Stock = StockSide(MergedKeys[k])
              /\ df_merged[k].Sales \in Nat /\ df_merged[k].Stock \in Nat
              /\ df_merged[k].Forecast_Demand = df_merged[k].Sales

\* merged aggregates with a key on the sales side only, a key on the stock
\* side only and a key on both sides
C9_Witness ==
    /\ pc = "lookups"
    /\ AggKeys(sales_agg) \ AggKeys(soh_agg) # {}
    /\ AggKeys(soh_agg) \ AggKeys(sales_agg) # {}
    /\ AggKeys(sales_agg) \cap AggKeys(soh_agg) # {}

(***************************************************************************)
(* C10  Missing column: when a required column is absent from the sales,   *)
(* the stock or the whitelist table, the run never reaches aggregation or  *)
(* allocation and ends with the missing-column error that names a column   *)
(* absent from the table it names.                                         *)
(***************************************************************************)
ColumnsOf(table) ==
    IF table = "Sales CSV" THEN sales_file.columns
    ELSE IF table = "SOH CSV" THEN soh_file.columns
    ELSE IF table = "Format Template CSV" THEN format_file.columns
    ELSE {}

RequiredOf(table) ==
    IF table = "Sales CSV" THEN Range(SalesRequired)
    ELSE IF table = "SOH CSV" THEN Range(SohRequired)
    ELSE IF table = "Format Template CSV" THEN Range(FormatRequired)
    ELSE {}

C10_MissingColumnError ==
    FirstMissing # <<>> =>
        /\ pc \in {"load", "validate", "stopped", "error"}
        /\ sales_agg = <<>> /\ soh_agg = <<>> /\ movements = <<>>
        /\ Ended =>
              /\ message.kind = "Missing in"
              /\ message.column \in RequiredOf(message.table) \ ColumnsOf(message.table)

\* the run of a sales file without ProductName ends in the except clause
C10_KeyErrorRun ==
    /\ pc = "error"
    /\ "ProductName" \notin sales_file.columns
    /\ message.kind = "Error"

(***************************************************************************)
(* C11  No brand information: when neither the sales nor the stock file    *)
(* has a brand column and every required column is present, the run never  *)
(* enters the error state: it goes on to aggregation and allocation.       *)
(***************************************************************************)
NoBrandColumns ==
    /\ "BrandName" \notin sales_file.columns
    /\ "Brand" \notin soh_file.columns

C11_NoBrandInformation ==
    (NoBrandColumns /\ FirstMissing = <<>>) => pc # "error"

\* the run of main.py on files without brand columns ends in the except
\* clause, on the name selected_brands
C11_NameErrorRun ==
    /\ NoBrandColumns
    /\ FirstMissing = <<>>
    /\ script = "main"
    /\ pc = "error"
    /\ message.column = "selected_brands"
    /\ sales_agg = <<>> /\ movements = <<>>

(***************************************************************************)
(* C12  Availability pool: during the allocation every pool entry is >= 0; *)
(* no step raises an entry; a step that emits a movement emits exactly one,*)
(* of quantity > 0 and at most the source's entry before the step, and     *)
(* lowers that entry by the quantity and no other entry; a step that emits *)
(* no movement leaves the pool as it is.                                   *)
(***************************************************************************)
Allocating == pc \in {"pairs", "warehouse", "retail"}

PoolStep ==
    (Allocating /\ Allocating') =>
        /\ DOMAIN available' = DOMAIN available
        /\ \A key \in DOMAIN available :
              available[key] >= 0 /\ available'[key] >= 0 /\ available'[key] <= available[key]
        /\ movements' = movements => available' = available
        /\ movements' # movements =>
              /\ Len(movements') = Len(movements) + 1
              /\ SubSeq(movements', 1, Len(movements)) = movements
              /\ LET m == movements'[Len(movements')]
                     src == <<m.Source, m.Product>>
                 IN  /\ m.Quantity > 0
                     /\ src \in DOMAIN available
                     /\ m.Quantity <= available[src]
                     /\ available' = [available EXCEPT ![src] = @ - m.Quantity]

C12_AvailabilityPool == [][PoolStep]_vars

\* a source drawn by two movements, its pool entry at 0, with the pool of a
\* destination that holds stock untouched
C12_Witness ==
    /\ Allocating
    /\ \E key \in DOMAIN available :
          /\ Cardinality(MovesFrom(key)) = 2
          /\ available[key] = 0
    /\ \E k \in DOMAIN movements :
          LET to == <<movements[k].Destination, movements[k].Product>>
          IN  to \in DOMAIN available /\ available[to] > 0

(***************************************************************************)
(* C13  Greedy exhaustion: when the processing of a shortfall pair has     *)
(* ended with rem > 0, every eligible source of the pair (a warehouse      *)
(* other than the destination with a Balance for the product, or a         *)
(* non-warehouse store other than the destination with positive original   *)
(* stock of it) has pool entry 0; the quantity shipped to a finished pair  *)
(* is the smaller of its shortfall and the pool total of its eligible      *)
(* sources when its processing began; and no error is reported.            *)
(***************************************************************************)
EligibleSources(key) ==
    {src \in BalanceKeys :
        /\ src[2] = key[2]
        /\ src[1] # key[1]
        /\ (IsWarehouse(src[1]) \/ StockTotal(src) > 0)}

RECURSIVE PoolTotal(_, _)
PoolTotal(pool, keys) ==
    IF keys = {} THEN 0
    ELSE LET k == CHOOSE m \in keys : TRUE
         IN  pool[k] + PoolTotal(pool, keys \ {k})

\* the pairs whose processing has ended
FinishedPairs ==
    IF pc \in {"warehouse", "retail"} THEN DOMAIN began \ {<<dest, part>>}
    ELSE DOMAIN began

C13_GreedyExhaustion ==
    /\ \A key \in FinishedPairs :
          ShippedTo(key) = Min(Shortfall(key), PoolTotal(began[key], EligibleSources(key)))
    /\ (pc = "pairs" /\ i >= 1) =>
          /\ rem = Shortfall(<<dest, part>>) - ShippedTo(<<dest, part>>)
          /\ rem > 0 => \A src \in EligibleSources(<<dest, part>>) : available[src] = 0
          /\ message = NoMessage
    /\ pc = "done" => message = NoMessage

\* a pair just ended with part of its shortfall unmet, after a warehouse and
\* a retail store both shipped to it
C13_Witness ==
    /\ pc = "pairs"
    /\ i >= 1
    /\ rem > 0
    /\ \E a \in MovesTo(<<dest, part>>) : IsWarehouse(movements[a].Source)
    /\ \E b \in MovesTo(<<dest, part>>) : ~IsWarehouse(movements[b].Source)

(***************************************************************************)
(* C14  Order independence.  As stated: whichever order the shortfall      *)
(* pairs are processed in, the total quantity shipped to each pair is the  *)
(* same.  As it holds: the movements of one product are exactly those the  *)
(* allocation loop emits over that product's shortfall pairs alone, so     *)
(* they do not depend on the shortfall pairs of any other product.         *)
(***************************************************************************)
Orders(n) == {f \in [1..n -> 1..n] : \A a \in 1..n : \E b \in 1..n : f[b] = a}

Reordered(rows, f) == [k \in DOMAIN rows |-> rows[f[k]]]

MovesOf(rows) == AllocationLoop(rows, Len(rows), stock_lu).moves

TotalTo(moves, key) ==
    QuantityOf(moves, {k \in DOMAIN moves :
                          moves[k].Destination = key[1] /\ moves[k].Product = key[2]})

PairsOfProduct(p) == LET of(r) == r.PartNo = p IN SelectSeq(pairs, of)

MovementsOfProduct(p) == LET of(m) == m.Product = p IN SelectSeq(movements, of)

ShortProducts == {pairs[k].PartNo : k \in DOMAIN pairs}

\* the claim as stated: every order of the pairs ships the same total to each
C14_AnyOrder ==
    pc = "done" =>
        \A f \in Orders(Len(pairs)) :
            \A k \in DOMAIN pairs :
                LET key == <<pairs[k].Store, pairs[k].PartNo>>
                IN  TotalTo(MovesOf(Reordered(pairs, f)), key) = ShippedTo(key)

\* the amended claim: the run's movements are the loop's over the pairs in
\* Balance order, and those of a product are the loop's over its pairs alone
C14_ProductIndependence ==
    pc = "done" =>
        /\ movements = MovesOf(pairs)
        /\ \A p \in ShortProducts : MovementsOfProduct(p) = MovesOf(PairsOfProduct(p))

\* a finished run with movements of two products, one store a source of both
C14_Witness ==
    /\ pc = "done"
    /\ \E a \in DOMAIN movements, b \in DOMAIN movements :
          /\ movements[a].Product # movements[b].Product
          /\ movements[a].Source = movements[b].Source

(***************************************************************************)
(* C15  Warehouses before retail: a step that emits a movement from a      *)
(* non-warehouse source is taken only when every warehouse other than the  *)
(* destination has pool entry 0 for the product; and among the movements   *)
(* to one (destination, product) pair every warehouse movement precedes    *)
(* every retail movement.                                                  *)
(***************************************************************************)
RetailEmission ==
    (Allocating /\ Len(movements') = Len(movements) + 1
                /\ ~IsWarehouse(movements'[Len(movements')].Source)) =>
        LET m == movements'[Len(movements')]
        IN  \A w \in WarehousesFor(<<m.Destination, m.Product>>) :
                available[w] = 0 /\ available'[w] = 0

WarehouseMovesFirst ==
    \A a \in DOMAIN movements, b \in DOMAIN movements :
        (/\ SamePair(a, b)
         /\ IsWarehouse(movements[a].Source)
         /\ ~IsWarehouse(movements[b].Source)) => a < b

C15_WarehousesBeforeRetail == [][RetailEmission]_vars /\ []WarehouseMovesFirst

\* a finished run in which a pair received a warehouse movement and then a
\* retail movement, the warehouse emptied
C15_Witness ==
    /\ pc = "done"
    /\ \E a \in DOMAIN movements, b \in RetailMoves :
          /\ SamePair(a, b)
          /\ IsWarehouse(movements[a].Source)
          /\ a < b
          /\ available[<<movements[a].Source, movements[a].Product>>] = 0

(***************************************************************************)
(* C16  Enrichment snapshot: the allocation steps leave the Balance set    *)
(* and the stock and sales lookups as they are; the source and the         *)
(* destination of every movement are Balance keys, so the enrichment never *)
(* fails; and the From SOH, To SOH, From Sales and To Sales of every       *)
(* result row are the original Balance stock and sales of its source and   *)
(* destination, not the pool values.                                       *)
(***************************************************************************)
LookupsKept ==
    (Allocating \/ pc = "done") =>
        (pc' # "load" =>
            /\ stock_lu' = stock_lu
            /\ sales_lu' = sales_lu
            /\ df_merged' = df_merged)

EnrichmentSound ==
    /\ \A k \in DOMAIN movements :
          /\ <<movements[k].Source, movements[k].Product>> \in BalanceKeys
          /\ <<movements[k].Destination, movements[k].Product>> \in BalanceKeys
    /\ (Allocating \/ pc = "done") =>
          /\ DOMAIN stock_lu = BalanceKeys
          /\ \A key \in BalanceKeys :
                stock_lu[key] = StockTotal(key) /\ sales_lu[key] = SalesTotal(key)
    /\ message.column # "KeyError"
    /\ pc = "done" =>
          /\ Len(result) = Len(movements)
          /\ \A k \in DOMAIN result :
                LET from == <<movements[k].Source, movements[k].Product>>
                    to == <<movements[k].Destination, movements[k].Product>>
                IN  /\ result[k].Source = movements[k].Source
                    /\ result[k].Destination = movements[k].Destination
                    /\ result[k].Quantity = movements[k].Quantity
                    /\ result[k].From_SOH = StockTotal(from)
                    /\ result[k].To_SOH = StockTotal(to)
                    /\ result[k].From_Sales = SalesTotal(from)
                    /\ result[k].To_Sales = SalesTotal(to)

C16_EnrichmentSnapshot == [][LookupsKept]_vars /\ []EnrichmentSound

\* a compiled result with a source drawn down by two movements, whose rows
\* still show its original stock
C16_Witness ==
    /\ pc = "done"
    /\ \E a \in DOMAIN result, b \in DOMAIN result :
          /\ a < b
          /\ result[a].Source = result[b].Source
          /\ result[a].Product = result[b].Product
          /\ result[b].From_SOH > available[<<result[b].Source, result[b].Product>>]
          /\ result[a].From_SOH = result[b].From_SOH

(***************************************************************************)
(* C17  Termination: an allocation run that has started finishes; the      *)
(* pairs processed so far are the first i shortfall rows, each a distinct  *)
(* shortfall pair of the Balance set, and at the end they are all of them, *)
(* so each shortfall pair is processed exactly once; and no pair receives  *)
(* two movements from the same source.                                     *)
(***************************************************************************)
PairKey(k) == <<pairs[k].Store, pairs[k].PartNo>>

ShortfallKeys == {key \in BalanceKeys : IsShortfall(key)}

EachPairOnce ==
    (Allocating \/ pc = "done") =>
        /\ i \in 0..Len(pairs)
        /\ processed = {PairKey(k) : k \in 1..i}
        /\ Cardinality(processed) = i
        /\ DOMAIN began = processed
        /\ {PairKey(k) : k \in DOMAIN pairs} = ShortfallKeys
        /\ Cardinality(ShortfallKeys) = Len(pairs)
        /\ pc = "done" => processed = ShortfallKeys
        /\ \A k \in DOMAIN movements :
              <<movements[k].Destination, movements[k].Product>> \in processed

OneDrawPerSource ==
    \A a \in DOMAIN movements, b \in DOMAIN movements :
        (SamePair(a, b) /\ movements[a].Source = movements[b].Source) => a = b

C17_Termination ==
    /\ Allocating ~> pc = "done"
    /\ [](EachPairOnce /\ OneDrawPerSource)

\* a finished run over three shortfall pairs, one of them left unmet
C17_Witness ==
    /\ pc = "done"
    /\ Len(pairs) >= 3
    /\ i = Len(pairs)
    /\ movements # <<>>
    /\ \E key \in processed : ShippedTo(key) < Shortfall(key)

=============================================================================
